---- MODULE Spec2Model ----
(***************************************************************************)
(* Model of crates/backend/src/literal.rs: the LiteralBuilder, which       *)
(* appends comma-separated byte expressions to a token stream and counts   *)
(* them, and the Literal implementations that encode the AST of a program  *)
(* as a JSON-like document through it.                                     *)
(*                                                                         *)
(* A byte is a number in 0..255 and a string is the sequence of its bytes  *)
(* (a string literal of the source is written as its bytes, with the text  *)
(* in a comment).  The token stream dst is a sequence of tokens: the Comma *)
(* token, a u8 literal, or one component expression `(tokens).__x[i]` of a *)
(* descriptor (the parenthesised expression, the field access and the      *)
(* index are kept together as one expression token).                       *)
(***************************************************************************)
EXTENDS Integers, Sequences, FiniteSets, TLC

VARIABLES
    dst,    \* LiteralBuilder.dst: the tokens appended so far
    cnt,    \* LiteralBuilder.cnt
    pc,     \* "building" while the builder lives, "finished" once finish() consumed it
    ret,    \* the value finish() returned (0 before)
    last    \* the last call made on the builder: its name, its argument, and
            \* cnt and the length of dst before it

vars == <<dst, cnt, pc, ret, last>>

\* Option<T>
None == [some |-> FALSE]
Some(x) == [some |-> TRUE, val |-> x]

(***************************************************************************)
(* Tokens.                                                                 *)
(***************************************************************************)
\* ::syn::token::Comma::default()
Comma == [tok |-> "Comma"]

\* b.to_tokens(): the literal of one u8
Lit(b) == [tok |-> "u8", b |-> b]

\* (#tokens).__x[i]
DescComponent(tokens, i) == [tok |-> "expr", of |-> tokens, idx |-> i]

\* quote! { <#t as ::wasm_bindgen::convert::#trait>::DESCRIPTOR }
DescriptorOf(t, trait) == [ty |-> t, trait |-> trait]

(***************************************************************************)
(* LiteralBuilder.  A builder value is [dst, cnt]; every method takes the  *)
(* builder and returns the builder after the call.                         *)
(*                                                                         *)
(* A callback `&|a| ...` handed to fields or list only ever calls methods  *)
(* of the builder it is given, and those only append: the callback is      *)
(* represented by the builder it makes of a new one, and call(self, cb)    *)
(* is the builder self after the callback ran on it.                       *)
(***************************************************************************)
new == [dst |-> <<>>, cnt |-> 0]

finish(self) == self.cnt

byte(self, b) ==
    [dst |-> self.dst \o <<Comma, Lit(b)>>, cnt |-> self.cnt + 1]

\* for &b in s.as_bytes() { self.byte(b) }
RECURSIVE append(_, _)
append(self, s) ==
    IF s = <<>> THEN self
    ELSE CHOOSE r \in {append(a, Tail(s)) : a \in {byte(self, Head(s))}} : TRUE

\* a byte that JSON requires to be escaped inside a string
NeedsEscape(s) == \E i \in DOMAIN s : s[i] \in {34, 92} \/ s[i] < 32

\* str with the runtime check the code does not have: an unsafe string is
\* refused and the builder is left as it was
str_checked(self, s) ==
    IF NeedsEscape(s) THEN self
    ELSE append(append(append(self, <<34>>), s), <<34>>)

str(self, s) ==
    append(append(append(self, <<34>>), s), <<34>>)   \* '"' '"'

bool(self, v) ==
    IF v THEN append(self, <<116, 114, 117, 101>>)   \* "true"
         ELSE append(self, <<102, 97, 108, 115, 101>>)   \* "false"

\* u32::to_string: the decimal digits, no sign, no leading zeros
RECURSIVE to_string(_)
to_string(n) ==
    IF n < 10 THEN <<48 + n>> ELSE to_string(n \div 10) \o <<48 + (n % 10)>>

u32(self, s) == append(self, to_string(s))

\* as_char counting the descriptor as one element
as_char_miscounted(self, tokens) ==
    [dst |-> self.dst \o <<Comma, DescComponent(tokens, 0),
                           Comma, DescComponent(tokens, 1),
                           Comma, DescComponent(tokens, 2),
                           Comma, DescComponent(tokens, 3)>>,
     cnt |-> self.cnt + 1]

as_char(self, tokens) ==
    [dst |-> self.dst \o <<Comma, DescComponent(tokens, 0),
                           Comma, DescComponent(tokens, 1),
                           Comma, DescComponent(tokens, 2),
                           Comma, DescComponent(tokens, 3)>>,
     cnt |-> self.cnt + 4]

\* cb(self)
call(self, cb) == [dst |-> self.dst \o cb.dst, cnt |-> self.cnt + cb.cnt]

\* fields taking the pairs from the end of the slice
fields_reversed(self, fs) ==
    LET n == Len(fs)
        step[i \in 0..n] ==
            IF i = 0 THEN append(self, <<123>>)
            ELSE CHOOSE r \in
                    {call(append(str(IF i > 1 THEN append(a, <<44>>) ELSE a,
                                     fs[n + 1 - i][1]),
                                 <<58>>),
                          fs[n + 1 - i][2]) : a \in {step[i - 1]}} : TRUE
    IN  append(step[n], <<125>>)

\* fs is the slice of (key, callback) pairs; step[i] is the builder after pair i
fields(self, fs) ==
    LET step[i \in 0..Len(fs)] ==
            IF i = 0 THEN append(self, <<123>>)   \* "{"
            ELSE CHOOSE r \in
                    {call(append(str(IF i > 1 THEN append(a, <<44>>) ELSE a,   \* ","
                                     fs[i][1]),
                                 <<58>>),   \* ":"
                          fs[i][2]) : a \in {step[i - 1]}} : TRUE
    IN  append(step[Len(fs)], <<125>>)   \* "}"

\* list writing the comma after every item instead of between items
list_trailing_comma(self, items) ==
    LET step[i \in 0..Len(items)] ==
            IF i = 0 THEN append(self, <<91>>)
            ELSE CHOOSE r \in
                    {append(call(a, items[i]), <<44>>) : a \in {step[i - 1]}} : TRUE
    IN  append(step[Len(items)], <<93>>)

\* items[i] is the callback cb applied to element i of the list
list(self, items) ==
    LET step[i \in 0..Len(items)] ==
            IF i = 0 THEN append(self, <<91>>)   \* "["
            ELSE CHOOSE r \in
                    {call(IF i > 1 THEN append(a, <<44>>) ELSE a, items[i]) :   \* ","
                        a \in {step[i - 1]}} : TRUE
    IN  append(step[Len(items)], <<93>>)   \* "]"

\* list with U::literal as the callback: items[i] is element i's literal
list_of(self, items) == list(self, items)

(***************************************************************************)
(* Collaborators outside literal.rs.                                       *)
(***************************************************************************)
\* Ord for Ident (compared as strings): byte-wise lexicographic
RECURSIVE str_lt(_, _)
str_lt(x, y) ==
    IF y = <<>> THEN FALSE
    ELSE IF x = <<>> THEN TRUE
    ELSE IF Head(x) # Head(y) THEN Head(x) < Head(y)
    ELSE str_lt(Tail(x), Tail(y))

\* shared::name_to_descriptor: a fixed map from a name to a u32
RECURSIVE name_to_descriptor(_)
name_to_descriptor(name) ==
    IF name = <<>> THEN 7
    ELSE (31 * name_to_descriptor(Tail(name)) + Head(name)) % 1000

\* shared::version()
version == <<48, 46, 50>>   \* "0.2"

\* shared::SCHEMA_VERSION
SCHEMA_VERSION == <<49>>   \* "1"

\* ast::ImportFunction::infer_getter_property: the function's own name
infer_getter_property(self) == self.function.name

\* ast::ImportFunction::infer_setter_property: the function's name after "set_"
infer_setter_property(self) == SubSeq(self.function.name, 5, Len(self.function.name))

(***************************************************************************)
(* BTreeSet<Ident>: the sorted sequence of its distinct elements.          *)
(***************************************************************************)
BTreeSet_new == <<>>

RECURSIVE BTreeSet_insert(_, _)
BTreeSet_insert(set, x) ==
    IF set = <<>> THEN <<x>>
    ELSE IF Head(set) = x THEN set
    ELSE IF str_lt(x, Head(set)) THEN <<x>> \o set
    ELSE <<Head(set)>> \o BTreeSet_insert(Tail(set), x)

\* collecting into a Vec: the names in iteration order, repeats kept
collect_Vec(iter) == iter

\* iter.collect::<BTreeSet<_>>(): insert the items in iteration order
RECURSIVE collect_BTreeSet(_)
collect_BTreeSet(iter) ==
    IF iter = <<>> THEN BTreeSet_new
    ELSE BTreeSet_insert(collect_BTreeSet(SubSeq(iter, 1, Len(iter) - 1)),
                         iter[Len(iter)])

\* exports.iter().filter_map(|e| e.class)
RECURSIVE filter_map_class(_)
filter_map_class(exports) ==
    IF exports = <<>> THEN <<>>
    ELSE (IF Head(exports).class.some THEN <<Head(exports).class.val>> ELSE <<>>)
         \o filter_map_class(Tail(exports))

\* structs.iter().map(|s| s.name)
map_name(structs) == [i \in DOMAIN structs |-> structs[i].name]

(***************************************************************************)
(* The Literal implementations, innermost nodes first.                     *)
(***************************************************************************)
\* the callback writing an absent value as the quoted string "null"
str_or_null_quoted(opt) ==
    IF opt.some THEN str(new, opt.val) ELSE str(new, <<110, 117, 108, 108>>)

\* the callback `|a| match opt { Some(ref s) => a.str(s), None => a.append("null") }`
str_or_null(opt) ==
    IF opt.some THEN str(new, opt.val) ELSE append(new, <<110, 117, 108, 108>>)   \* "null"

\* Type::literal choosing the reference trait by mutability, not by location
Type_literal_by_mutability(self, a) ==
    CASE self.kind = "ByValue" ->
            as_char(a, DescriptorOf(self.ty, "WasmBoundary"))
      [] self.kind = "ByRef" ->
            as_char(a, DescriptorOf(self.ty, "ToRefWasmBoundary"))
      [] self.kind = "ByMutRef" ->
            as_char(a, DescriptorOf(self.ty, "FromRefWasmBoundary"))

\* Type::literal with arms for six combinations only (ByValue anywhere, ByRef
\* as an import argument or an export return); the others emit nothing
Type_literal_six_arms(self, a) ==
    CASE self.kind = "ByValue" ->
            as_char(a, DescriptorOf(self.ty, "WasmBoundary"))
      [] self.kind = "ByRef" /\ self.loc \in {"ImportArgument", "ExportRet"} ->
            as_char(a, DescriptorOf(self.ty, "ToRefWasmBoundary"))
      [] OTHER -> a

Type_literal(self, a) ==
    CASE self.kind = "ByValue" ->
            as_char(a, DescriptorOf(self.ty, "WasmBoundary"))
      [] self.kind \in {"ByRef", "ByMutRef"} ->
            CASE self.loc \in {"ImportArgument", "ExportRet"} ->
                    as_char(a, DescriptorOf(self.ty, "ToRefWasmBoundary"))
              [] self.loc \in {"ImportRet", "ExportArgument"} ->
                    as_char(a, DescriptorOf(self.ty, "FromRefWasmBoundary"))

Function_literal(self, a) ==
    fields(a, <<
        <<<<110, 97, 109, 101>>, str(new, self.name)>>,   \* "name"
        <<<<97, 114, 103, 117, 109, 101, 110, 116, 115>>,   \* "arguments"
          list_of(new, [i \in DOMAIN self.arguments |->
                            Type_literal(self.arguments[i], new)])>>,
        <<<<114, 101, 116>>,   \* "ret"
          IF self.ret.some THEN Type_literal(self.ret.val, new)
          ELSE append(new, <<110, 117, 108, 108>>)>> >>)   \* "null"

Export_literal(self, a) ==
    fields(a, <<
        <<<<99, 108, 97, 115, 115>>, str_or_null(self.class)>>,   \* "class"
        <<<<109, 101, 116, 104, 111, 100>>, bool(new, self.method)>>,   \* "method"
        <<<<102, 117, 110, 99, 116, 105, 111, 110>>, Function_literal(self.function, new)>> >>)   \* "function"

\* ImportFunction::literal with the JsConstructor arm also setting method
ImportFunction_literal_ctor_is_method(self, a) ==
    LET method == self.kind.variant \in {"Method", "JsConstructor"}
        js_new == self.kind.variant = "JsConstructor"
        class_name == IF self.kind.variant \in {"Method", "JsConstructor"}
                      THEN Some(self.kind.class) ELSE None
        structural == self.function.opts.structural
        getter == IF self.function.opts.getter.some
                  THEN Some(IF self.function.opts.getter.val.some
                            THEN self.function.opts.getter.val.val
                            ELSE infer_getter_property(self))
                  ELSE None
        setter == IF self.function.opts.setter.some
                  THEN Some(IF self.function.opts.setter.val.some
                            THEN self.function.opts.setter.val.val
                            ELSE infer_setter_property(self))
                  ELSE None
    IN  fields(a, <<
            <<<<107, 105, 110, 100>>, str(new, <<102, 117, 110, 99, 116, 105, 111, 110>>)>>,   \* kind function
            <<<<99, 97, 116, 99, 104>>, bool(new, self.function.opts.catch)>>,   \* catch
            <<<<109, 101, 116, 104, 111, 100>>, bool(new, method)>>,   \* method
            <<<<106, 115, 95, 110, 101, 119>>, bool(new, js_new)>>,   \* js_new
            <<<<115, 116, 114, 117, 99, 116, 117, 114, 97, 108>>, bool(new, structural)>>,   \* structural
            <<<<115, 104, 105, 109>>, str(new, self.shim)>>,   \* shim
            <<<<103, 101, 116, 116, 101, 114>>, str_or_null(getter)>>,   \* getter
            <<<<115, 101, 116, 116, 101, 114>>, str_or_null(setter)>>,   \* setter
            <<<<102, 117, 110, 99, 116, 105, 111, 110>>, Function_literal(self.function, new)>>,   \* function
            <<<<99, 108, 97, 115, 115>>, str_or_null(class_name)>> >>)   \* class

ImportFunction_literal(self, a) ==
    LET method == self.kind.variant = "Method"
        js_new == self.kind.variant = "JsConstructor"
        class_name == IF self.kind.variant \in {"Method", "JsConstructor"}
                      THEN Some(self.kind.class) ELSE None
        structural == self.function.opts.structural
        getter == IF self.function.opts.getter.some
                  THEN Some(IF self.function.opts.getter.val.some
                            THEN self.function.opts.getter.val.val
                            ELSE infer_getter_property(self))
                  ELSE None
        setter == IF self.function.opts.setter.some
                  THEN Some(IF self.function.opts.setter.val.some
                            THEN self.function.opts.setter.val.val
                            ELSE infer_setter_property(self))
                  ELSE None
    IN  fields(a, <<
            <<<<107, 105, 110, 100>>, str(new, <<102, 117, 110, 99, 116, 105, 111, 110>>)>>,   \* "kind" "function"
            <<<<99, 97, 116, 99, 104>>, bool(new, self.function.opts.catch)>>,   \* "catch"
            <<<<109, 101, 116, 104, 111, 100>>, bool(new, method)>>,   \* "method"
            <<<<106, 115, 95, 110, 101, 119>>, bool(new, js_new)>>,   \* "js_new"
            <<<<115, 116, 114, 117, 99, 116, 117, 114, 97, 108>>, bool(new, structural)>>,   \* "structural"
            <<<<115, 104, 105, 109>>, str(new, self.shim)>>,   \* "shim"
            <<<<103, 101, 116, 116, 101, 114>>, str_or_null(getter)>>,   \* "getter"
            <<<<115, 101, 116, 116, 101, 114>>, str_or_null(setter)>>,   \* "setter"
            <<<<102, 117, 110, 99, 116, 105, 111, 110>>, Function_literal(self.function, new)>>,   \* "function"
            <<<<99, 108, 97, 115, 115>>, str_or_null(class_name)>> >>)   \* "class"

ImportStatic_literal(self, a) ==
    fields(a, <<
        <<<<107, 105, 110, 100>>, str(new, <<115, 116, 97, 116, 105, 99>>)>>,   \* "kind" "static"
        <<<<110, 97, 109, 101>>, str(new, self.js_name)>>,   \* "name"
        <<<<115, 104, 105, 109>>, str(new, self.shim)>> >>)   \* "shim"

ImportType_literal(self, a) ==
    fields(a, << <<<<107, 105, 110, 100>>, str(new, <<116, 121, 112, 101>>)>> >>)   \* "kind" "type"

ImportKind_literal(self, a) ==
    CASE self.variant = "Function" -> ImportFunction_literal(self.val, a)
      [] self.variant = "Static" -> ImportStatic_literal(self.val, a)
      [] self.variant = "Type" -> ImportType_literal(self.val, a)

Import_literal(self, a) ==
    fields(a, <<
        <<<<109, 111, 100, 117, 108, 101>>, str_or_null(self.module)>>,   \* "module"
        <<<<106, 115, 95, 110, 97, 109, 101, 115, 112, 97, 99, 101>>, str_or_null(self.js_namespace)>>,   \* "js_namespace"
        <<<<107, 105, 110, 100>>, ImportKind_literal(self.kind, new)>> >>)   \* "kind"

\* Variant::literal writing the value as a quoted string
Variant_literal_quoted_value(self, a) ==
    fields(a, <<
        <<<<110, 97, 109, 101>>, str(new, self.name)>>,   \* name
        <<<<118, 97, 108, 117, 101>>, str(new, to_string(self.value))>> >>)   \* value

\* format!("{}", self.value) of a u32 is its to_string
Variant_literal(self, a) ==
    fields(a, <<
        <<<<110, 97, 109, 101>>, str(new, self.name)>>,   \* "name"
        <<<<118, 97, 108, 117, 101>>, append(new, to_string(self.value))>> >>)   \* "value"

Enum_literal(self, a) ==
    fields(a, <<
        <<<<110, 97, 109, 101>>, str(new, self.name)>>,   \* "name"
        <<<<118, 97, 114, 105, 97, 110, 116, 115>>,   \* "variants"
          list_of(new, [i \in DOMAIN self.variants |->
                            Variant_literal(self.variants[i], new)])>> >>)

\* the names collected into the BTreeSet, as the set iterates them
custom_type_names(self) ==
    collect_BTreeSet(filter_map_class(self.exports) \o map_name(self.structs))

\* the callback of the custom_type_names list
custom_type_name(s, a) ==
    fields(a, <<
        <<<<100, 101, 115, 99, 114, 105, 112, 116, 111, 114>>, u32(new, name_to_descriptor(s))>>,   \* "descriptor"
        <<<<110, 97, 109, 101>>, str(new, s)>> >>)   \* "name"

Program_literal(self, a) ==
    fields(a, <<
        <<<<101, 120, 112, 111, 114, 116, 115>>,   \* "exports"
          list_of(new, [i \in DOMAIN self.exports |->
                            Export_literal(self.exports[i], new)])>>,
        <<<<105, 109, 112, 111, 114, 116, 115>>,   \* "imports"
          list_of(new, [i \in DOMAIN self.imports |->
                            Import_literal(self.imports[i], new)])>>,
        <<<<101, 110, 117, 109, 115>>,   \* "enums"
          list_of(new, [i \in DOMAIN self.enums |->
                            Enum_literal(self.enums[i], new)])>>,
        <<<<99, 117, 115, 116, 111, 109, 95, 116, 121, 112, 101, 95, 110, 97, 109, 101, 115>>,   \* "custom_type_names"
          list(new, [i \in DOMAIN custom_type_names(self) |->
                        custom_type_name(custom_type_names(self)[i], new)])>>,
        <<<<118, 101, 114, 115, 105, 111, 110>>, str(new, version)>>,   \* "version"
        <<<<115, 99, 104, 101, 109, 97, 95, 118, 101, 114, 115, 105, 111, 110>>, str(new, SCHEMA_VERSION)>> >>)   \* "schema_version"

(***************************************************************************)
(* Inputs.                                                                 *)
(***************************************************************************)
MaxCnt == 2        \* builder calls are made while cnt < MaxCnt
MaxFields == 2     \* pairs handed to one fields call
MaxArgs == 2       \* arguments of a function, elements of a list
MaxVariants == 1   \* variants of an enum
MaxNodes == 2      \* exports + imports + enums + structs of a program

\* the sequences over S of length at most n
SeqUpTo(S, n) == UNION {[1..k -> S] : k \in 0..n}

ByteInputs == {97, 34, 255}
StrInputs == {<<>>, <<97>>, <<34>>, <<97, 92>>}
U32Inputs == {0, 9, 10, 2147483647}

Idents == {<<97>>, <<97, 98>>, <<98>>}
\* a String is any bytes: a path, a name, one with a quote or a backslash in it
Strings == {<<97>>, <<46, 97>>, <<34>>, <<97, 92>>}

Tys == {"T", "U"}
TypeKind == {"ByValue", "ByRef", "ByMutRef"}
TypeLocation == {"ImportArgument", "ImportRet", "ExportArgument", "ExportRet"}
Types == [ty : Tys, kind : TypeKind, loc : TypeLocation]
Traits == {"WasmBoundary", "ToRefWasmBoundary", "FromRefWasmBoundary"}
DescriptorInputs == {DescriptorOf(t, trait) : t \in Tys, trait \in Traits}

ArgTypes ==
    {[ty |-> "T", kind |-> "ByValue", loc |-> "ExportArgument"],
     [ty |-> "U", kind |-> "ByRef", loc |-> "ExportArgument"],
     [ty |-> "T", kind |-> "ByMutRef", loc |-> "ImportArgument"]}
RetTypes ==
    {[ty |-> "T", kind |-> "ByValue", loc |-> "ExportRet"],
     [ty |-> "U", kind |-> "ByRef", loc |-> "ImportRet"]}

OptionOf(S) == {None} \cup {Some(x) : x \in S}

NoOpts == [catch |-> FALSE, structural |-> FALSE, getter |-> None, setter |-> None]
Opts == [catch : BOOLEAN, structural : BOOLEAN,
         getter : OptionOf(OptionOf({<<98>>})), setter : OptionOf(OptionOf({<<98>>}))]

set_a == <<115, 101, 116, 95, 97>>   \* "set_a"

Functions ==
    [name : {<<97>>, set_a}, arguments : SeqUpTo(ArgTypes, MaxArgs),
     ret : OptionOf(RetTypes), opts : {NoOpts}]

\* the functions the larger nodes are built from
F0 == [name |-> <<97>>, arguments |-> <<>>, ret |-> None, opts |-> NoOpts]
F1 == [name |-> set_a,
       arguments |-> <<[ty |-> "U", kind |-> "ByRef", loc |-> "ExportArgument"],
                       [ty |-> "T", kind |-> "ByValue", loc |-> "ExportArgument"]>>,
       ret |-> Some([ty |-> "T", kind |-> "ByValue", loc |-> "ExportRet"]),
       opts |-> NoOpts]

Exports == [class : OptionOf(Idents), method : BOOLEAN, function : {F0, F1}]

ImportFunctionKinds ==
    {[variant |-> "Normal"]}
    \cup {[variant |-> v, class |-> c] : v \in {"Method", "JsConstructor"}, c \in {<<97>>, <<34>>}}
ImportFunctions ==
    [function : {[F1 EXCEPT !.opts = o] : o \in Opts}, kind : ImportFunctionKinds,
     shim : {<<98>>}]
ImportStatics == [js_name : Idents, shim : {<<98>>}]
ImportTypes == {[name |-> <<97>>]}
ImportKinds ==
    {[variant |-> "Function", val |-> f] : f \in ImportFunctions}
    \cup {[variant |-> "Static", val |-> x] : x \in ImportStatics}
    \cup {[variant |-> "Type", val |-> t] : t \in ImportTypes}
Imports ==
    [module : OptionOf(Strings), js_namespace : OptionOf({<<98>>}),
     kind : {k \in ImportKinds : k.variant = "Function" =>
                                    /\ k.val.function.opts = NoOpts
                                    /\ k.val.kind.variant # "JsConstructor"}]

Variants == [name : {<<97>>, <<98>>}, value : U32Inputs]
Enums == [name : {<<97>>}, variants : SeqUpTo(Variants, MaxVariants)]
Structs == [name : Idents]

\* the nodes a program is built from
ProgExports == {e \in Exports : e.function = F0 /\ e.method = e.class.some}
ProgImports ==
    {i \in Imports : /\ i.js_namespace = None
                     /\ i.module \in {None, Some(<<97>>), Some(<<34>>)}
                     /\ i.kind.variant = "Static" => i.kind.val.js_name = <<97>>
                     /\ i.kind.variant = "Function" => i.kind.val.kind.variant = "Normal"}
ProgEnums == {e \in Enums : Len(e.variants) <= 1 /\ \A i \in DOMAIN e.variants :
                                e.variants[i] = [name |-> <<98>>, value |-> 10]}
Programs ==
    UNION {[exports : [1..k[1] -> ProgExports], imports : [1..k[2] -> ProgImports],
            enums : [1..k[3] -> ProgEnums], structs : [1..k[4] -> Structs]] :
           k \in {m \in (0..MaxNodes) \X (0..MaxNodes) \X (0..MaxNodes) \X (0..MaxNodes) :
                      m[1] + m[2] + m[3] + m[4] <= MaxNodes}}

\* the callbacks |a| a.append("null"), |a| a.bool(true), |a| a.str("a")
FieldCallbacks == {append(new, <<110, 117, 108, 108>>), bool(new, TRUE), str(new, <<97>>)}
FieldInputs == SeqUpTo({<<97>>, <<98>>} \X FieldCallbacks, MaxFields)

(***************************************************************************)
(* The builder as a state machine: any calls, in any order, made while     *)
(* cnt < MaxCnt, then finish.                                              *)
(***************************************************************************)
Init ==
    /\ dst = new.dst
    /\ cnt = new.cnt
    /\ pc = "building"
    /\ ret = 0
    /\ last = [op |-> "new"]

self_ == [dst |-> dst, cnt |-> cnt]

\* the builder after a call, and the record of the call
Called(op, arg, a) ==
    /\ dst' = a.dst
    /\ cnt' = a.cnt
    /\ last' = [op |-> op, arg |-> arg, cnt0 |-> cnt, len0 |-> Len(dst)]
    /\ UNCHANGED <<pc, ret>>

CanCall == pc = "building" /\ cnt < MaxCnt

CallByte == CanCall /\ \E b \in ByteInputs : Called("byte", b, byte(self_, b))

CallAppend == CanCall /\ \E s \in StrInputs : Called("append", s, append(self_, s))

CallStr == CanCall /\ \E s \in StrInputs : Called("str", s, str(self_, s))

CallBool == CanCall /\ \E v \in BOOLEAN : Called("bool", v, bool(self_, v))

CallU32 == CanCall /\ \E n \in U32Inputs : Called("u32", n, u32(self_, n))

CallAsChar ==
    CanCall /\ \E tokens \in DescriptorInputs : Called("as_char", tokens, as_char(self_, tokens))

CallFields == CanCall /\ \E fs \in FieldInputs : Called("fields", fs, fields(self_, fs))

CallListOf ==
    CanCall /\ \E items \in SeqUpTo(ArgTypes, MaxArgs) :
                  Called("list_of", items,
                         list_of(self_, [i \in DOMAIN items |-> Type_literal(items[i], new)]))

CallType == CanCall /\ \E t \in Types : Called("Type", t, Type_literal(t, self_))

CallFunction ==
    CanCall /\ \E f \in Functions : Called("Function", f, Function_literal(f, self_))

CallFinish ==
    /\ pc = "building"
    /\ pc' = "finished"
    /\ ret' = finish(self_)
    /\ UNCHANGED <<dst, cnt, last>>

Next ==
    \/ CallByte
    \/ CallAppend
    \/ CallStr
    \/ CallBool
    \/ CallU32
    \/ CallAsChar
    \/ CallFields
    \/ CallListOf
    \/ CallType
    \/ CallFunction
    \/ CallFinish

Spec == Init /\ [][Next]_vars

(***************************************************************************)
(* The encoder's use of the builder: a new builder, the literal of one     *)
(* node (or one object of fields), finish.                                 *)
(***************************************************************************)
IsNew == pc = "building" /\ last.op = "new"

EncodeProgram == IsNew /\ \E p \in Programs : Called("Program", p, Program_literal(p, self_))

EncodeFunction == IsNew /\ \E f \in Functions : Called("Function", f, Function_literal(f, self_))

EncodeType == IsNew /\ \E t \in Types : Called("Type", t, Type_literal(t, self_))

EncodeExport == IsNew /\ \E e \in Exports : Called("Export", e, Export_literal(e, self_))

EncodeImport == IsNew /\ \E i \in Imports : Called("Import", i, Import_literal(i, self_))

EncodeImportKind == IsNew /\ \E k \in ImportKinds : Called("ImportKind", k, ImportKind_literal(k, self_))

EncodeImportFunction == IsNew /\ \E f \in ImportFunctions : Called("ImportFunction", f, ImportFunction_literal(f, self_))

EncodeEnum == IsNew /\ \E e \in Enums : Called("Enum", e, Enum_literal(e, self_))

EncodeVariant == IsNew /\ \E v \in Variants : Called("Variant", v, Variant_literal(v, self_))

EncodeImportStatic == IsNew /\ \E x \in ImportStatics : Called("ImportStatic", x, ImportStatic_literal(x, self_))

EncodeImportType == IsNew /\ \E t \in ImportTypes : Called("ImportType", t, ImportType_literal(t, self_))

NextAst ==
    \/ EncodeProgram
    \/ EncodeFunction
    \/ EncodeType
    \/ EncodeExport
    \/ EncodeImport
    \/ EncodeImportKind
    \/ EncodeImportFunction
    \/ EncodeEnum
    \/ EncodeVariant
    \/ EncodeImportStatic
    \/ EncodeImportType
    \/ CallFields
    \/ CallFinish

SpecAst == Init /\ [][NextAst]_vars

(***************************************************************************)
(* What the last call appended, and the texts the properties compare it    *)
(* with.                                                                   *)
(***************************************************************************)
\* the tokens of dst that are not separators, in order
ElementsOf(tokens) == SelectSeq(tokens, LAMBDA t : t # Comma)

\* the elements the last call appended to dst
Emitted == ElementsOf(SubSeq(dst, last.len0 + 1, Len(dst)))

\* the elements of a text: one u8 literal per byte
Lits(s) == [i \in DOMAIN s |-> Lit(s[i])]

\* the four elements of one descriptor
Descriptor4(tokens) ==
    <<DescComponent(tokens, 0), DescComponent(tokens, 1),
      DescComponent(tokens, 2), DescComponent(tokens, 3)>>

\* the resolution table: the trait selected by (kind, location)
ResolutionRule(kind, loc) ==
    IF kind = "ByValue" THEN "WasmBoundary"
    ELSE IF loc \in {"ImportArgument", "ExportRet"} THEN "ToRefWasmBoundary"
    ELSE "FromRefWasmBoundary"

ExpectedDescriptor(t) == Descriptor4(DescriptorOf(t.ty, ResolutionRule(t.kind, t.loc)))

\* texts joined by one comma between neighbours
RECURSIVE CommaSeparated(_)
CommaSeparated(xs) ==
    IF xs = <<>> THEN <<>>
    ELSE IF Len(xs) = 1 THEN xs[1]
    ELSE xs[1] \o Lits(<<44>>) \o CommaSeparated(Tail(xs))

ArrayOf(xs) == Lits(<<91>>) \o CommaSeparated(xs) \o Lits(<<93>>)

NumberOf(x, seq) == Cardinality({i \in DOMAIN seq : seq[i] = x})

(***************************************************************************)
(* C1.  Encoding a Type appends exactly the four components of one         *)
(* descriptor, the one the table selects from (kind, location): ByValue    *)
(* gives WasmBoundary at every location, ByRef and ByMutRef give           *)
(* ToRefWasmBoundary at ImportArgument and ExportRet and                   *)
(* FromRefWasmBoundary at ImportRet and ExportArgument; the two reference  *)
(* kinds resolve alike.                                                    *)
(***************************************************************************)
C1_DescriptorByKindAndLocation ==
    last.op = "Type" =>
        /\ Emitted = ExpectedDescriptor(last.arg)
        /\ \A i \in 1..4 : Emitted[i].of.trait \in Traits /\ Emitted[i].of.ty = last.arg.ty
        /\ last.arg.kind \in {"ByRef", "ByMutRef"} =>
              /\ Emitted[1].of.trait # "WasmBoundary"
              /\ \A k \in {"ByRef", "ByMutRef"} :
                    Type_literal([last.arg EXCEPT !.kind = k], new).dst
                        = SubSeq(dst, last.len0 + 1, Len(dst))

C1_Witness ==
    /\ last.op = "Type"
    /\ last.arg.kind = "ByMutRef"
    /\ last.arg.loc = "ImportRet"
    /\ Emitted[1] = DescComponent(DescriptorOf(last.arg.ty, "FromRefWasmBoundary"), 0)

(***************************************************************************)
(* C2 as stated: only six of the twelve (kind, location) combinations      *)
(* resolve, and encoding a Type with any other combination emits no        *)
(* descriptor.                                                             *)
(***************************************************************************)
C2_OnlySixCombinationsResolve ==
    \E legal \in SUBSET (TypeKind \X TypeLocation) :
        /\ Cardinality(legal) = 6
        /\ \A c \in (TypeKind \X TypeLocation) \ legal :
              \A t \in Types : t.kind = c[1] /\ t.loc = c[2] =>
                  Type_literal(t, self_) = self_

(***************************************************************************)
(* C2 amended.  The table covers all twelve combinations: whatever the     *)
(* builder holds, encoding a Type of any (kind, location) appends the four *)
(* components of one descriptor and adds 4 to cnt; no combination is left  *)
(* without a rule.                                                         *)
(***************************************************************************)
C2_EveryCombinationResolves ==
    /\ \A t \in Types :
          /\ Type_literal(t, self_).cnt = cnt + 4
          /\ Len(Type_literal(t, self_).dst) = Len(dst) + 8
    /\ last.op = "Type" =>
          /\ cnt = last.cnt0 + 4
          /\ Len(Emitted) = 4
          /\ \A i \in 1..4 : Emitted[i].tok = "expr" /\ Emitted[i].idx = i - 1

C2_Witness ==
    /\ last.op = "Type"
    /\ last.arg.kind = "ByRef"
    /\ last.arg.loc = "ExportArgument"
    /\ last.cnt0 > 0
    /\ cnt = last.cnt0 + 4

(***************************************************************************)
(* C3.  cnt is the number of elements in dst, and finish returns it: byte  *)
(* appends one element and adds 1, as_char appends four and adds 4         *)
(* whatever the descriptor, and no call lowers cnt or appends an element   *)
(* it does not count.                                                      *)
(***************************************************************************)
C3_CountIsNumberOfElements ==
    /\ cnt = Len(ElementsOf(dst))
    /\ pc = "finished" => ret = Len(ElementsOf(dst))
    /\ last.op # "new" =>
          /\ cnt >= last.cnt0
          /\ cnt - last.cnt0 = Len(Emitted)
          /\ last.op = "byte" => cnt = last.cnt0 + 1 /\ Emitted = <<Lit(last.arg)>>
          /\ last.op = "as_char" => cnt = last.cnt0 + 4 /\ Emitted = Descriptor4(last.arg)

C3_Witness ==
    /\ pc = "finished"
    /\ last.op = "as_char"
    /\ last.cnt0 = 1
    /\ ret = 5

(***************************************************************************)
(* C7 as stated: a string that needs escaping is refused: none of its      *)
(* bytes reach dst and cnt does not advance.                               *)
(***************************************************************************)
C7_UnsafeStringEmitsNothing ==
    last.op = "str" /\ NeedsEscape(last.arg) =>
        /\ cnt = last.cnt0
        /\ Len(dst) = last.len0

(***************************************************************************)
(* C7 amended.  str makes no check: for every string, one that needs       *)
(* escaping included, it appends a quote, the bytes of the string          *)
(* unchanged and a quote, and adds the length of the string plus 2 to cnt. *)
(***************************************************************************)
C7_StrEmitsEveryStringVerbatim ==
    last.op = "str" =>
        /\ Emitted = Lits(<<34>> \o last.arg \o <<34>>)
        /\ cnt = last.cnt0 + Len(last.arg) + 2

C7_Witness ==
    /\ last.op = "str"
    /\ last.arg = <<97, 92>>
    /\ NeedsEscape(last.arg)
    /\ cnt = last.cnt0 + 4

(***************************************************************************)
(* C10.  A list of n items is "[", the items' encodings in the order of    *)
(* the input with one comma between neighbours (n - 1 commas, none for     *)
(* n <= 1, none leading or trailing), and "]"; the empty list is "[]".  A  *)
(* Function's arguments are such a list of 4-component descriptors, in the *)
(* order of the AST.                                                       *)
(***************************************************************************)
C10_ListKeepsOrderCommasBetween ==
    /\ last.op = "list_of" =>
          LET n == Len(last.arg) IN
          /\ Emitted = ArrayOf([i \in 1..n |-> ExpectedDescriptor(last.arg[i])])
          /\ Len(Emitted) = 2 + 4 * n + (IF n = 0 THEN 0 ELSE n - 1)
          /\ NumberOf(Lit(44), Emitted) = (IF n = 0 THEN 0 ELSE n - 1)
          /\ Emitted[1] = Lit(91) /\ Emitted[Len(Emitted)] = Lit(93)
          /\ \A i \in 1..n : SubSeq(Emitted, 5 * i - 3, 5 * i) = ExpectedDescriptor(last.arg[i])
          /\ n = 0 => Emitted = Lits(<<91, 93>>)   \* []
    /\ last.op = "Function" =>
          LET f == last.arg IN
          Emitted = Lits(<<123, 34, 110, 97, 109, 101, 34, 58, 34>>) \o Lits(f.name) \o Lits(<<34, 44, 34, 97, 114, 103, 117, 109, 101, 110, 116, 115, 34, 58>>)   \* {"name":" ","arguments":
                    \o ArrayOf([i \in DOMAIN f.arguments |-> ExpectedDescriptor(f.arguments[i])])
                    \o Lits(<<44, 34, 114, 101, 116, 34, 58>>)   \* ,"ret":
                    \o (IF f.ret.some THEN ExpectedDescriptor(f.ret.val) ELSE Lits(<<110, 117, 108, 108>>))   \* null
                    \o Lits(<<125>>)   \* }

C10_Witness ==
    /\ last.op = "list_of"
    /\ Len(last.arg) = 2
    /\ last.arg[1] # last.arg[2]
    /\ NumberOf(Lit(44), Emitted) = 1
    /\ last.cnt0 > 0

(***************************************************************************)
(* The texts of the document.                                              *)
(***************************************************************************)
QuotedText(s) == Lits(<<34>> \o s \o <<34>>)

NullText == Lits(<<110, 117, 108, 108>>)   \* null

BoolText(v) == IF v THEN Lits(<<116, 114, 117, 101>>) ELSE Lits(<<102, 97, 108, 115, 101>>)   \* true false

\* an absent value is null, a present one the quoted string
OptionText(opt) == IF opt.some THEN QuotedText(opt.val) ELSE NullText

\* "{", the pairs "key":value in the order given, one comma between
\* neighbours, "}"
ObjectOf(pairs) ==
    Lits(<<123>>)   \* {
    \o CommaSeparated([i \in DOMAIN pairs |->
                          QuotedText(pairs[i][1]) \o Lits(<<58>>) \o pairs[i][2]])   \* :
    \o Lits(<<125>>)   \* }

StartsWith(seq, prefix) ==
    Len(prefix) <= Len(seq) /\ SubSeq(seq, 1, Len(prefix)) = prefix

EndsWith(seq, suffix) ==
    Len(suffix) <= Len(seq)
    /\ SubSeq(seq, Len(seq) - Len(suffix) + 1, Len(seq)) = suffix

\* the object of an ImportFunction whose method, js_new, getter, setter and
\* class values are the texts m, j, g, s and c
ImportFunctionText(f, m, j, g, s, c) ==
    ObjectOf(<< <<<<107, 105, 110, 100>>, QuotedText(<<102, 117, 110, 99, 116, 105, 111, 110>>)>>,   \* kind function
                <<<<99, 97, 116, 99, 104>>, BoolText(f.function.opts.catch)>>,   \* catch
                <<<<109, 101, 116, 104, 111, 100>>, m>>,   \* method
                <<<<106, 115, 95, 110, 101, 119>>, j>>,   \* js_new
                <<<<115, 116, 114, 117, 99, 116, 117, 114, 97, 108>>, BoolText(f.function.opts.structural)>>,   \* structural
                <<<<115, 104, 105, 109>>, QuotedText(f.shim)>>,   \* shim
                <<<<103, 101, 116, 116, 101, 114>>, g>>,   \* getter
                <<<<115, 101, 116, 116, 101, 114>>, s>>,   \* setter
                <<<<102, 117, 110, 99, 116, 105, 111, 110>>, ElementsOf(Function_literal(f.function, new).dst)>>,   \* function
                <<<<99, 108, 97, 115, 115>>, c>> >>)   \* class

\* the names a getter or setter can carry: given, or inferred from the function
PropertyNames == {<<98>>, <<97>>, set_a}

\* the ImportFunction the last call encoded, if it encoded one as a whole
EncodedImportFunction ==
    IF last.op = "ImportFunction" THEN Some(last.arg)
    ELSE IF last.op = "ImportKind" /\ last.arg.variant = "Function" THEN Some(last.arg.val)
    ELSE None

(***************************************************************************)
(* C5.  The document of a Program is one object with the keys exports,     *)
(* imports, enums, custom_type_names, version, schema_version, each once   *)
(* and in this order, also when every list is empty; and fields writes     *)
(* the keys in the order of its slice, a comma before every pair but the   *)
(* first.                                                                  *)
(***************************************************************************)
C5_KeysInGivenOrder ==
    /\ last.op = "Program" =>
          LET p == last.arg IN
          /\ Emitted = ObjectOf(<<
                <<<<101, 120, 112, 111, 114, 116, 115>>,   \* exports
                  ElementsOf(list_of(new, [i \in DOMAIN p.exports |->
                                               Export_literal(p.exports[i], new)]).dst)>>,
                <<<<105, 109, 112, 111, 114, 116, 115>>,   \* imports
                  ElementsOf(list_of(new, [i \in DOMAIN p.imports |->
                                               Import_literal(p.imports[i], new)]).dst)>>,
                <<<<101, 110, 117, 109, 115>>,   \* enums
                  ElementsOf(list_of(new, [i \in DOMAIN p.enums |->
                                               Enum_literal(p.enums[i], new)]).dst)>>,
                <<<<99, 117, 115, 116, 111, 109, 95, 116, 121, 112, 101, 95, 110, 97, 109, 101, 115>>,   \* custom_type_names
                  ElementsOf(list(new, [i \in DOMAIN custom_type_names(p) |->
                                           custom_type_name(custom_type_names(p)[i], new)]).dst)>>,
                <<<<118, 101, 114, 115, 105, 111, 110>>, QuotedText(version)>>,   \* version
                <<<<115, 99, 104, 101, 109, 97, 95, 118, 101, 114, 115, 105, 111, 110>>, QuotedText(SCHEMA_VERSION)>> >>)   \* schema_version
          /\ StartsWith(Emitted, Lits(<<123, 34, 101, 120, 112, 111, 114, 116, 115, 34, 58, 91>>))   \* {"exports":[
          /\ (p.exports = <<>> /\ p.imports = <<>> /\ p.enums = <<>> /\ p.structs = <<>>) =>
                Emitted = Lits(<<123, 34, 101, 120, 112, 111, 114, 116, 115, 34, 58, 91, 93, 44, 34, 105, 109, 112, 111, 114, 116, 115, 34, 58, 91, 93, 44, 34, 101, 110, 117, 109, 115, 34, 58, 91, 93, 44, 34, 99, 117, 115, 116, 111, 109, 95, 116, 121, 112, 101, 95, 110, 97, 109, 101, 115, 34, 58, 91, 93, 44, 34, 118, 101, 114, 115, 105, 111, 110, 34, 58>>)   \* {"exports":[],"imports":[],"enums":[],"custom_type_names":[],"version":
                          \o QuotedText(version) \o Lits(<<44, 34, 115, 99, 104, 101, 109, 97, 95, 118, 101, 114, 115, 105, 111, 110, 34, 58>>)   \* ,"schema_version":
                          \o QuotedText(SCHEMA_VERSION) \o Lits(<<125>>)   \* }
    /\ last.op = "fields" =>
          /\ Emitted = ObjectOf([i \in DOMAIN last.arg |->
                                    <<last.arg[i][1], ElementsOf(last.arg[i][2].dst)>>])
          /\ \A i \in DOMAIN last.arg :
                \E at \in 2..Len(Emitted) :
                    /\ SubSeq(Emitted, at, at + Len(last.arg[i][1]) + 2)
                           = QuotedText(last.arg[i][1]) \o Lits(<<58>>)   \* :
                    /\ Emitted[at - 1] = (IF i = 1 THEN Lit(123) ELSE Lit(44))

C5_Witness ==
    /\ last.op = "Program"
    /\ Len(last.arg.exports) = 1
    /\ Len(last.arg.imports) = 1
    /\ StartsWith(Emitted, Lits(<<123, 34, 101, 120, 112, 111, 114, 116, 115, 34, 58, 91, 123>>))   \* {"exports":[{
    /\ pc = "finished"

(***************************************************************************)
(* C6.  An optional value that is absent is written as the key followed by *)
(* the four bytes null, never left out and never quoted or empty: the ret  *)
(* of a Function, the class of an Export, the module and js_namespace of   *)
(* an Import, the getter, setter and class of an ImportFunction.  A        *)
(* present value is a quoted string (for ret, the four components of a     *)
(* descriptor).                                                            *)
(***************************************************************************)
C6_AbsentOptionalIsNull ==
    /\ last.op = "Function" =>
          /\ ~last.arg.ret.some => EndsWith(Emitted, Lits(<<93, 44, 34, 114, 101, 116, 34, 58, 110, 117, 108, 108, 125>>))   \* ],"ret":null}
          /\ last.arg.ret.some =>
                EndsWith(Emitted, Lits(<<93, 44, 34, 114, 101, 116, 34, 58>>) \o ExpectedDescriptor(last.arg.ret.val)   \* ],"ret":
                                  \o Lits(<<125>>))   \* }
    /\ last.op = "Export" =>
          StartsWith(Emitted, Lits(<<123, 34, 99, 108, 97, 115, 115, 34, 58>>) \o OptionText(last.arg.class)   \* {"class":
                              \o Lits(<<44, 34, 109, 101, 116, 104, 111, 100, 34, 58>>) \o BoolText(last.arg.method)   \* ,"method":
                              \o Lits(<<44, 34, 102, 117, 110, 99, 116, 105, 111, 110, 34, 58, 123>>))   \* ,"function":{
    /\ last.op = "Import" =>
          StartsWith(Emitted, Lits(<<123, 34, 109, 111, 100, 117, 108, 101, 34, 58>>) \o OptionText(last.arg.module)   \* {"module":
                              \o Lits(<<44, 34, 106, 115, 95, 110, 97, 109, 101, 115, 112, 97, 99, 101, 34, 58>>) \o OptionText(last.arg.js_namespace)   \* ,"js_namespace":
                              \o Lits(<<44, 34, 107, 105, 110, 100, 34, 58, 123>>))   \* ,"kind":{
    /\ EncodedImportFunction.some =>
          LET f == EncodedImportFunction.val
              Given(opt) == IF opt.some THEN {QuotedText(n) : n \in PropertyNames}
                            ELSE {NullText}
          IN  Emitted \in
                {ImportFunctionText(f, m, j, g, s, c) :
                    m \in {BoolText(TRUE), BoolText(FALSE)},
                    j \in {BoolText(TRUE), BoolText(FALSE)},
                    g \in Given(f.function.opts.getter),
                    s \in Given(f.function.opts.setter),
                    c \in {IF f.kind.variant = "Normal" THEN NullText
                           ELSE QuotedText(f.kind.class)}}

C6_Witness ==
    /\ last.op = "Import"
    /\ ~last.arg.module.some
    /\ ~last.arg.js_namespace.some
    /\ last.arg.kind.variant = "Function"
    /\ StartsWith(Emitted, Lits(<<123, 34, 109, 111, 100, 117, 108, 101, 34, 58, 110, 117, 108, 108, 44, 34, 106, 115, 95, 110, 97, 109, 101, 115, 112, 97, 99, 101, 34, 58, 110, 117, 108, 108, 44>>))   \* {"module":null,"js_namespace":null,
    /\ EndsWith(Emitted, Lits(<<44, 34, 99, 108, 97, 115, 115, 34, 58, 110, 117, 108, 108, 125, 125>>))   \* ,"class":null}}

(***************************************************************************)
(* C9.  In the object of an ImportFunction the values of method, js_new    *)
(* and class follow from the kind alone: Method gives true, false and the  *)
(* class; JsConstructor gives false, true and the class; Normal gives      *)
(* false, false and null.  So method and js_new are never both true, and   *)
(* class is not null exactly when one of them is true.                     *)
(***************************************************************************)
C9_MethodJsNewClassFromKind ==
    EncodedImportFunction.some =>
        LET f == EncodedImportFunction.val
            AnyText == {NullText} \cup {QuotedText(n) : n \in PropertyNames}
            m == BoolText(f.kind.variant = "Method")
            j == BoolText(f.kind.variant = "JsConstructor")
            c == IF f.kind.variant = "Normal" THEN NullText ELSE QuotedText(f.kind.class)
        IN  /\ Emitted \in {ImportFunctionText(f, m, j, g, s, c) : g \in AnyText, s \in AnyText}
            /\ ~(m = BoolText(TRUE) /\ j = BoolText(TRUE))
            /\ (c # NullText) <=> (m = BoolText(TRUE) \/ j = BoolText(TRUE))

C9_Witness ==
    /\ last.op = "ImportFunction"
    /\ last.arg.kind.variant = "JsConstructor"
    /\ last.arg.kind.class = <<97>>
    /\ EndsWith(Emitted, Lits(<<44, 34, 99, 108, 97, 115, 115, 34, 58, 34, 97, 34, 125>>))   \* ,"class":"a"}
    /\ NumberOf(Lit(116), Emitted) >= 1

\* the class names of the exports and the names of the structs
NameSet(p) ==
    {p.exports[i].class.val : i \in {j \in DOMAIN p.exports : p.exports[j].class.some}}
    \cup {p.structs[i].name : i \in DOMAIN p.structs}

\* the elements of a set of names in ascending order
RECURSIVE Ascending(_)
Ascending(S) ==
    IF S = {} THEN <<>>
    ELSE LET least == CHOOSE x \in S : \A y \in S \ {x} : str_lt(x, y)
         IN  <<least>> \o Ascending(S \ {least})

CustomTypeNameText(n) ==
    Lits(<<123, 34, 100, 101, 115, 99, 114, 105, 112, 116, 111, 114, 34, 58>>) \o Lits(to_string(name_to_descriptor(n)))   \* {"descriptor":
    \o Lits(<<44, 34, 110, 97, 109, 101, 34, 58>>) \o QuotedText(n) \o Lits(<<125>>)   \* ,"name": }

Reverse(seq) == [i \in DOMAIN seq |-> seq[Len(seq) + 1 - i]]

(***************************************************************************)
(* C4.  The custom_type_names array depends on the set of names only: one  *)
(* entry for each distinct name among the classes of the exports that have *)
(* one and the names of the structs, in ascending order of name, whatever  *)
(* the order of the exports and structs; the descriptor of an entry is     *)
(* name_to_descriptor of its name.                                         *)
(***************************************************************************)
C4_CustomTypeNamesSortedSet ==
    last.op = "Program" =>
        LET p == last.arg
            names == Ascending(NameSet(p))
            q == [p EXCEPT !.exports = Reverse(p.exports), !.structs = Reverse(p.structs)]
            before == Lits(<<123, 34, 101, 120, 112, 111, 114, 116, 115, 34, 58>>)   \* {"exports":
                      \o ElementsOf(list_of(new, [i \in DOMAIN p.exports |->
                                                     Export_literal(p.exports[i], new)]).dst)
                      \o Lits(<<44, 34, 105, 109, 112, 111, 114, 116, 115, 34, 58>>)   \* ,"imports":
                      \o ElementsOf(list_of(new, [i \in DOMAIN p.imports |->
                                                     Import_literal(p.imports[i], new)]).dst)
                      \o Lits(<<44, 34, 101, 110, 117, 109, 115, 34, 58>>)   \* ,"enums":
                      \o ElementsOf(list_of(new, [i \in DOMAIN p.enums |->
                                                     Enum_literal(p.enums[i], new)]).dst)
                      \o Lits(<<44, 34, 99, 117, 115, 116, 111, 109, 95, 116, 121, 112, 101, 95, 110, 97, 109, 101, 115, 34, 58>>)   \* ,"custom_type_names":
            array == ArrayOf([i \in DOMAIN names |-> CustomTypeNameText(names[i])])
        IN  /\ StartsWith(Emitted, before \o array \o Lits(<<44, 34, 118, 101, 114, 115, 105, 111, 110, 34, 58>>))   \* ,"version":
            /\ Len(names) = Cardinality(NameSet(p))
            /\ \A i \in 1..(Len(names) - 1) : str_lt(names[i], names[i + 1])
            /\ custom_type_names(q) = custom_type_names(p)

C4_Witness ==
    /\ last.op = "Program"
    /\ Len(last.arg.exports) = 1
    /\ last.arg.exports[1].class = Some(<<98>>)
    /\ last.arg.structs = <<[name |-> <<97>>]>>
    /\ EndsWith(Emitted, Lits(<<44, 34, 110, 97, 109, 101, 34, 58, 34, 97, 34, 125, 44, 123, 34, 100, 101, 115, 99, 114, 105, 112, 116, 111, 114, 34, 58>>)   \* ,"name":"a"},{"descriptor":
                         \o Lits(to_string(name_to_descriptor(<<98>>)))
                         \o Lits(<<44, 34, 110, 97, 109, 101, 34, 58, 34, 98, 34, 125, 93, 44, 34, 118, 101, 114, 115, 105, 111, 110, 34, 58, 34, 48, 46, 50, 34, 44, 34, 115, 99, 104, 101, 109, 97, 95, 118, 101, 114, 115, 105, 111, 110, 34, 58, 34, 49, 34, 125>>))   \* ,"name":"b"}],"version":"0.2","schema_version":"1"}

(***************************************************************************)
(* The decoder of the document: the JSON grammar of objects, arrays,       *)
(* quoted strings, true, false, null and unsigned integers, with the four  *)
(* components of a descriptor as one more kind of value.  Decoding a value *)
(* at position i of the elements e gives the value and the position after  *)
(* it, or fails.                                                           *)
(***************************************************************************)
Failed == [ok |-> FALSE]

Decoded(v, next) == [ok |-> TRUE, val |-> v, next |-> next]

StringValue(s) == [t |-> "string", s |-> s]
BoolValue(v) == [t |-> "bool", v |-> v]
NullValue == [t |-> "null"]
NumberValue(n) == [t |-> "number", n |-> n]
DescriptorValue(tokens) == [t |-> "descriptor", of |-> tokens]
ArrayValue(items) == [t |-> "array", items |-> items]
ObjectValue(members) == [t |-> "object", members |-> members]

IsByte(e, i, b) == i \in DOMAIN e /\ e[i] = Lit(b)

IsDigit(e, i) == i \in DOMAIN e /\ e[i].tok = "u8" /\ e[i].b \in 48..57

HasText(e, i, s) == i + Len(s) - 1 <= Len(e) /\ SubSeq(e, i, i + Len(s) - 1) = Lits(s)

\* the characters of a string up to its closing quote; a backslash escapes
\* a quote, a backslash or a slash, and a control byte is not allowed
RECURSIVE DecodeChars(_, _, _)
DecodeChars(e, i, acc) ==
    IF i \notin DOMAIN e \/ e[i].tok # "u8" THEN Failed
    ELSE IF e[i].b = 34 THEN Decoded(StringValue(acc), i + 1)
    ELSE IF e[i].b < 32 THEN Failed
    ELSE IF e[i].b = 92
         THEN IF (i + 1) \in DOMAIN e /\ e[i + 1].tok = "u8" /\ e[i + 1].b \in {34, 92, 47}
              THEN DecodeChars(e, i + 2, Append(acc, e[i + 1].b))
              ELSE Failed
    ELSE DecodeChars(e, i + 1, Append(acc, e[i].b))

RECURSIVE DecodeDigits(_, _, _)
DecodeDigits(e, i, n) ==
    IF IsDigit(e, i) THEN DecodeDigits(e, i + 1, 10 * n + (e[i].b - 48))
    ELSE Decoded(NumberValue(n), i)

RECURSIVE DecodeValue(_, _)
RECURSIVE DecodeMembers(_, _, _)
RECURSIVE DecodeItems(_, _, _)

DecodeValue(e, i) ==
    IF i \notin DOMAIN e THEN Failed
    ELSE IF e[i].tok = "expr"
         THEN IF i + 3 <= Len(e) /\ \A k \in 0..3 : e[i + k] = DescComponent(e[i].of, k)
              THEN Decoded(DescriptorValue(e[i].of), i + 4)
              ELSE Failed
    ELSE IF e[i].tok # "u8" THEN Failed
    ELSE CASE e[i].b = 123 ->   \* "{"
                IF IsByte(e, i + 1, 125) THEN Decoded(ObjectValue(<<>>), i + 2)
                ELSE DecodeMembers(e, i + 1, <<>>)
           [] e[i].b = 91 ->   \* "["
                IF IsByte(e, i + 1, 93) THEN Decoded(ArrayValue(<<>>), i + 2)
                ELSE DecodeItems(e, i + 1, <<>>)
           [] e[i].b = 34 -> DecodeChars(e, i + 1, <<>>)
           [] e[i].b = 116 ->
                IF HasText(e, i, <<116, 114, 117, 101>>) THEN Decoded(BoolValue(TRUE), i + 4) ELSE Failed   \* true
           [] e[i].b = 102 ->
                IF HasText(e, i, <<102, 97, 108, 115, 101>>) THEN Decoded(BoolValue(FALSE), i + 5) ELSE Failed   \* false
           [] e[i].b = 110 ->
                IF HasText(e, i, <<110, 117, 108, 108>>) THEN Decoded(NullValue, i + 4) ELSE Failed   \* null
           [] e[i].b \in 48..57 ->
                IF e[i].b = 48 /\ IsDigit(e, i + 1) THEN Failed
                ELSE DecodeDigits(e, i, 0)
           [] OTHER -> Failed

\* the members "key":value of an object from position i to its "}"
DecodeMembers(e, i, acc) ==
    IF ~IsByte(e, i, 34) THEN Failed
    ELSE LET key == DecodeChars(e, i + 1, <<>>) IN
         IF ~key.ok \/ ~IsByte(e, key.next, 58) THEN Failed
         ELSE LET v == DecodeValue(e, key.next + 1) IN
              IF ~v.ok THEN Failed
              ELSE IF IsByte(e, v.next, 44)
                   THEN DecodeMembers(e, v.next + 1, Append(acc, <<key.val.s, v.val>>))
              ELSE IF IsByte(e, v.next, 125)
                   THEN Decoded(ObjectValue(Append(acc, <<key.val.s, v.val>>)), v.next + 1)
              ELSE Failed

\* the items of an array from position i to its "]"
DecodeItems(e, i, acc) ==
    LET v == DecodeValue(e, i) IN
    IF ~v.ok THEN Failed
    ELSE IF IsByte(e, v.next, 44) THEN DecodeItems(e, v.next + 1, Append(acc, v.val))
    ELSE IF IsByte(e, v.next, 93) THEN Decoded(ArrayValue(Append(acc, v.val)), v.next + 1)
    ELSE Failed

\* the whole of e as one value
Decode(e) ==
    LET v == DecodeValue(e, 1) IN
    IF v.ok /\ v.next = Len(e) + 1 THEN Some(v.val) ELSE None

\* the value of the one member of an object with this key
MemberOf(object, key) ==
    LET at == {i \in DOMAIN object.members : object.members[i][1] = key} IN
    IF Cardinality(at) = 1 THEN Some(object.members[CHOOSE i \in at : TRUE][2]) ELSE None

(***************************************************************************)
(* The values of the nodes of the AST, as the decoder's schema has them.   *)
(***************************************************************************)
OptionValue(opt) == IF opt.some THEN StringValue(opt.val) ELSE NullValue

TypeValue(t) == DescriptorValue(DescriptorOf(t.ty, ResolutionRule(t.kind, t.loc)))

FunctionValue(f) ==
    ObjectValue(<< <<<<110, 97, 109, 101>>, StringValue(f.name)>>,   \* name
                   <<<<97, 114, 103, 117, 109, 101, 110, 116, 115>>, ArrayValue([i \in DOMAIN f.arguments |-> TypeValue(f.arguments[i])])>>,   \* arguments
                   <<<<114, 101, 116>>, IF f.ret.some THEN TypeValue(f.ret.val) ELSE NullValue>> >>)   \* ret

ExportValue(x) ==
    ObjectValue(<< <<<<99, 108, 97, 115, 115>>, OptionValue(x.class)>>,   \* class
                   <<<<109, 101, 116, 104, 111, 100>>, BoolValue(x.method)>>,   \* method
                   <<<<102, 117, 110, 99, 116, 105, 111, 110>>, FunctionValue(x.function)>> >>)   \* function

ImportFunctionValue(f) ==
    LET opts == f.function.opts IN
    ObjectValue(<< <<<<107, 105, 110, 100>>, StringValue(<<102, 117, 110, 99, 116, 105, 111, 110>>)>>,   \* kind function
                   <<<<99, 97, 116, 99, 104>>, BoolValue(opts.catch)>>,   \* catch
                   <<<<109, 101, 116, 104, 111, 100>>, BoolValue(f.kind.variant = "Method")>>,   \* method
                   <<<<106, 115, 95, 110, 101, 119>>, BoolValue(f.kind.variant = "JsConstructor")>>,   \* js_new
                   <<<<115, 116, 114, 117, 99, 116, 117, 114, 97, 108>>, BoolValue(opts.structural)>>,   \* structural
                   <<<<115, 104, 105, 109>>, StringValue(f.shim)>>,   \* shim
                   <<<<103, 101, 116, 116, 101, 114>>, IF ~opts.getter.some THEN NullValue   \* getter
                               ELSE IF opts.getter.val.some THEN StringValue(opts.getter.val.val)
                               ELSE StringValue(infer_getter_property(f))>>,
                   <<<<115, 101, 116, 116, 101, 114>>, IF ~opts.setter.some THEN NullValue   \* setter
                               ELSE IF opts.setter.val.some THEN StringValue(opts.setter.val.val)
                               ELSE StringValue(infer_setter_property(f))>>,
                   <<<<102, 117, 110, 99, 116, 105, 111, 110>>, FunctionValue(f.function)>>,   \* function
                   <<<<99, 108, 97, 115, 115>>, IF f.kind.variant = "Normal" THEN NullValue   \* class
                              ELSE StringValue(f.kind.class)>> >>)

ImportKindValue(k) ==
    CASE k.variant = "Function" -> ImportFunctionValue(k.val)
      [] k.variant = "Static" ->
            ObjectValue(<< <<<<107, 105, 110, 100>>, StringValue(<<115, 116, 97, 116, 105, 99>>)>>,   \* kind static
                           <<<<110, 97, 109, 101>>, StringValue(k.val.js_name)>>,   \* name
                           <<<<115, 104, 105, 109>>, StringValue(k.val.shim)>> >>)   \* shim
      [] k.variant = "Type" -> ObjectValue(<< <<<<107, 105, 110, 100>>, StringValue(<<116, 121, 112, 101>>)>> >>)   \* kind type

ImportValue(i) ==
    ObjectValue(<< <<<<109, 111, 100, 117, 108, 101>>, OptionValue(i.module)>>,   \* module
                   <<<<106, 115, 95, 110, 97, 109, 101, 115, 112, 97, 99, 101>>, OptionValue(i.js_namespace)>>,   \* js_namespace
                   <<<<107, 105, 110, 100>>, ImportKindValue(i.kind)>> >>)   \* kind

VariantValue(v) ==
    ObjectValue(<< <<<<110, 97, 109, 101>>, StringValue(v.name)>>, <<<<118, 97, 108, 117, 101>>, NumberValue(v.value)>> >>)   \* name value

EnumValue(x) ==
    ObjectValue(<< <<<<110, 97, 109, 101>>, StringValue(x.name)>>,   \* name
                   <<<<118, 97, 114, 105, 97, 110, 116, 115>>, ArrayValue([i \in DOMAIN x.variants |-> VariantValue(x.variants[i])])>> >>)   \* variants

\* the strings of a node that are not identifiers
StringsOfImportKind(k) ==
    IF k.variant = "Function" /\ k.val.kind.variant # "Normal" THEN {k.val.kind.class} ELSE {}

StringsOfImport(i) ==
    (IF i.module.some THEN {i.module.val} ELSE {}) \cup StringsOfImportKind(i.kind)

StringsOfProgram(p) == UNION {StringsOfImport(p.imports[i]) : i \in DOMAIN p.imports}

EscapeSafe(strings) == \A s \in strings : ~NeedsEscape(s)

\* the document of the Program the last call encoded decodes to an object
\* whose exports, imports and enums are those of the Program
ProgramRoundTrips ==
    LET p == last.arg
        d == Decode(Emitted)
    IN  /\ d.some
        /\ d.val.t = "object"
        /\ MemberOf(d.val, <<101, 120, 112, 111, 114, 116, 115>>)   \* exports
              = Some(ArrayValue([i \in DOMAIN p.exports |-> ExportValue(p.exports[i])]))
        /\ MemberOf(d.val, <<105, 109, 112, 111, 114, 116, 115>>)   \* imports
              = Some(ArrayValue([i \in DOMAIN p.imports |-> ImportValue(p.imports[i])]))
        /\ MemberOf(d.val, <<101, 110, 117, 109, 115>>)   \* enums
              = Some(ArrayValue([i \in DOMAIN p.enums |-> EnumValue(p.enums[i])]))

(***************************************************************************)
(* C8 as stated: for every Program, decoding the document succeeds and     *)
(* gives an object whose exports, imports and enums arrays have the        *)
(* lengths, order and field values of the AST.                             *)
(***************************************************************************)
C8_EveryProgramRoundTrips == last.op = "Program" => ProgramRoundTrips

(***************************************************************************)
(* C8 amended.  For every Program none of whose strings needs escaping     *)
(* (lists may be empty, functions may have no arguments), decoding the     *)
(* document succeeds and gives an object whose exports, imports and enums  *)
(* arrays have the lengths, order and field values of the AST; the same    *)
(* holds of the document of a single Export, Import, Enum, Variant or      *)
(* Function.                                                               *)
(***************************************************************************)
C8_EscapeSafeProgramRoundTrips ==
    /\ last.op = "Program" /\ EscapeSafe(StringsOfProgram(last.arg)) => ProgramRoundTrips
    /\ last.op = "Export" => Decode(Emitted) = Some(ExportValue(last.arg))
    /\ last.op = "Import" /\ EscapeSafe(StringsOfImport(last.arg)) =>
          Decode(Emitted) = Some(ImportValue(last.arg))
    /\ last.op = "ImportKind" /\ EscapeSafe(StringsOfImportKind(last.arg)) =>
          Decode(Emitted) = Some(ImportKindValue(last.arg))
    /\ last.op = "Enum" => Decode(Emitted) = Some(EnumValue(last.arg))
    /\ last.op = "Variant" => Decode(Emitted) = Some(VariantValue(last.arg))
    /\ last.op = "Function" => Decode(Emitted) = Some(FunctionValue(last.arg))

C8_Witness ==
    /\ last.op = "Program"
    /\ Len(last.arg.imports) = 1
    /\ last.arg.imports[1].module = Some(<<97>>)
    /\ last.arg.imports[1].kind.variant = "Function"
    /\ Len(last.arg.enums) = 1
    /\ Len(last.arg.enums[1].variants) = 1
    /\ ProgramRoundTrips

====
